---- MODULE Spec2Model ----
(***************************************************************************)
(* Authentication and ownership-based authorization of the ERP backend    *)
(* (erp_backend/app: auth.py, crud.py, main.py, schemas.py, models.py,    *)
(* database.py) and the session cache of its client (erp_frontend/app.py).*)
(*                                                                         *)
(* Time is counted in whole minutes.  A handler runs atomically at one     *)
(* clock instant.  A JWT is modelled structurally: header algorithm,       *)
(* claims, and a signature that is the ideal MAC of (key, algorithm,       *)
(* claims); two signatures are equal iff key, algorithm and claims are.    *)
(***************************************************************************)
EXTENDS Integers, FiniteSets, Sequences, TLC

VARIABLES
    users,   \* table "users": id -> row
    items,   \* table "inventory_items": id -> row
    now,     \* the server clock (datetime.utcnow()), in minutes
    held,    \* the bearer token a caller currently holds: {} or {token}
    resp,    \* the response of the handler that has just run, or NoResp
    session_state,  \* erp_frontend: st.session_state (token, user, last_activity, inventory)
    page,           \* erp_frontend: the script run that has just finished, or NoPage
    discarded,      \* the token the client last dropped from its cache, and why: {} or {d}
    inflight,       \* the registration requests in progress: request -> position
    granted         \* for a held token that is as a login returned it: the token, and
                    \* whether its principal was active at that login: {} or {g}

vars == <<users, items, now, held, resp, session_state, page, discarded, inflight, granted>>

(***************************************************************************)
(* Bounds                                                                  *)
(***************************************************************************)
MaxTime == 60
MaxItemId == 2
MaxRequests == 2

Usernames == {"alice", "bob"}
BadUsername == "a!"
Emails == {"a@x.io"}
GoodPassword == "Passw0rd1"
OtherPassword == "Passw0rd2"
WeakPassword == "password"
ForgedKey == "attacker-key"
Quantities == {1, 2}
\* The time that passes between two requests, in minutes: just under, exactly
\* and just over the lifetime of a login token.
TickSteps == {29, 30, 31}
RequestIds == 1..MaxRequests

(***************************************************************************)
(* Program constants                                                       *)
(***************************************************************************)
SECRET_KEY == "your-secret-key-please-change-in-production"
ALGORITHM == "HS256"
ACCESS_TOKEN_EXPIRE_MINUTES == 30
DEFAULT_EXPIRE_MINUTES == 15
MIN_USERNAME_LEN == 3
MAX_USERNAME_LEN == 50
MIN_PASSWORD_LEN == 8
READ_ITEMS_LIMIT == 100
INACTIVITY_LIMIT_MINUTES == 30

(***************************************************************************)
(* Helpers                                                                 *)
(***************************************************************************)
SetMax(S) == CHOOSE x \in S : \A y \in S : y <= x

\* The id an INTEGER PRIMARY KEY column gives a new row: max(rowid) + 1.
NextId(rows) == IF DOMAIN rows = {} THEN 1 ELSE SetMax(DOMAIN rows) + 1

\* The empty table.
NoRows == [i \in {} |-> 0]

Insert(rows, id, row) == [i \in DOMAIN rows \cup {id} |-> IF i = id THEN row ELSE rows[i]]

Remove(rows, id) == [i \in DOMAIN rows \ {id} |-> rows[i]]

\* Optional values are sets of at most one element: {} is None.
None == {}

\* What the text of a username or password is made of (the inputs of the
\* validators of schemas.py, which work on characters).
TextOf(s) ==
    CASE s = "alice"     -> [len |-> 5, word |-> TRUE,  upper |-> FALSE, lower |-> TRUE, digit |-> FALSE, at |-> FALSE]
      [] s = "bob"       -> [len |-> 3, word |-> TRUE,  upper |-> FALSE, lower |-> TRUE, digit |-> FALSE, at |-> FALSE]
      [] s = "a!"        -> [len |-> 2, word |-> FALSE, upper |-> FALSE, lower |-> TRUE, digit |-> FALSE, at |-> FALSE]
      [] s = "a@x.io"    -> [len |-> 6, word |-> FALSE, upper |-> FALSE, lower |-> TRUE, digit |-> FALSE, at |-> TRUE]
      [] s = "Passw0rd1" -> [len |-> 9, word |-> TRUE,  upper |-> TRUE,  lower |-> TRUE, digit |-> TRUE,  at |-> FALSE]
      [] s = "Passw0rd2" -> [len |-> 9, word |-> TRUE,  upper |-> TRUE,  lower |-> TRUE, digit |-> TRUE,  at |-> FALSE]
      [] s = "password"  -> [len |-> 8, word |-> TRUE,  upper |-> FALSE, lower |-> TRUE, digit |-> FALSE, at |-> FALSE]

(***************************************************************************)
(* crud.py: password hashing and user lookup                               *)
(***************************************************************************)
\* pwd_context.hash: a self-describing digest, never the plaintext itself.
get_password_hash(password) == <<"bcrypt", password>>

\* pwd_context.verify: recompute from the digest's parameters and compare.
verify_password(plain_password, hashed_password) ==
    /\ hashed_password[1] = "bcrypt"
    /\ hashed_password[2] = plain_password

\* .filter(User.username == username).first(): {} or {id}
get_user_by_username(rows, username) ==
    LET hit == {i \in DOMAIN rows : rows[i].username = username}
    IN  IF hit = {} THEN None ELSE {CHOOSE i \in hit : \A j \in hit : i <= j}

\* .filter(User.email == email).first(): {} or {id}
get_user_by_email(rows, email) ==
    LET hit == {i \in DOMAIN rows : rows[i].email = {email}}
    IN  IF hit = {} THEN None ELSE {CHOOSE i \in hit : \A j \in hit : i <= j}

\* authenticate_user refusing a principal whose is_active is false.
authenticate_user_active_only(rows, username, password) ==
    LET byName == get_user_by_username(rows, username)
        user   == IF byName = None /\ TextOf(username).at
                  THEN get_user_by_email(rows, username)
                  ELSE byName
    IN  IF user = None \/ \E i \in user : ~verify_password(password, rows[i].hashed_password)
        THEN None
        ELSE IF \E i \in user : ~rows[i].is_active THEN None
        ELSE user

\* crud.authenticate_user: {} or {id}
authenticate_user(rows, username, password) ==
    LET byName == get_user_by_username(rows, username)
        user   == IF byName = None /\ TextOf(username).at
                  THEN get_user_by_email(rows, username)
                  ELSE byName
    IN  IF user = None \/ \E i \in user : ~verify_password(password, rows[i].hashed_password)
        THEN None
        ELSE user

(***************************************************************************)
(* auth.py: tokens                                                         *)
(***************************************************************************)
\* HMAC over header and payload with a key (jose's jws.sign): the ideal MAC.
Sign(key, alg, claims) == [key |-> key, alg |-> alg, claims |-> claims]

\* jwt.encode(claims, key, algorithm)
jwt_encode(claims, key, alg) == [alg |-> alg, claims |-> claims, sig |-> Sign(key, alg, claims)]

\* jose's _validate_exp, as jwt.decode calls it (no leeway): the token is
\* refused when its exp is before the current time.
validate_exp(claims, t) == "exp" \in DOMAIN claims => ~(claims.exp < t)

\* jwt.decode that skips the signature check (verify_signature: False).
jwt_decode_unverified(token, key, algorithms, t) ==
    IF ~validate_exp(token.claims, t)
    THEN [ok |-> FALSE, err |-> "ExpiredSignatureError", payload |-> token.claims]
    ELSE [ok |-> TRUE, err |-> "", payload |-> token.claims]

\* jwt.decode(token, key, algorithms): the signature first, then the claims.
\* Both failures are JWTError.
jwt_decode(token, key, algorithms, t) ==
    IF token.alg \notin algorithms \/ token.sig # Sign(key, token.alg, token.claims)
    THEN [ok |-> FALSE, err |-> "JWSError", payload |-> token.claims]
    ELSE IF ~validate_exp(token.claims, t)
    THEN [ok |-> FALSE, err |-> "ExpiredSignatureError", payload |-> token.claims]
    ELSE [ok |-> TRUE, err |-> "", payload |-> token.claims]

\* dict.get("sub"): {} when the key is absent
payload_get_sub(payload) == IF "sub" \in DOMAIN payload THEN {payload.sub} ELSE None

\* token_expire ignoring its argument: always the 15-minute default.
token_expire_default(expires_delta, t) == t + DEFAULT_EXPIRE_MINUTES

\* The expiry create_access_token computes: `if expires_delta:` is Python
\* truthiness, false for None and for timedelta(0).
token_expire(expires_delta, t) ==
    IF expires_delta # None /\ expires_delta # {0}
    THEN t + (CHOOSE d \in expires_delta : TRUE)
    ELSE t + DEFAULT_EXPIRE_MINUTES

\* create_access_token(data, expires_delta): data is {} or {sub}
create_access_token(data, expires_delta, t) ==
    LET expire == token_expire(expires_delta, t)
        to_encode == IF data = None
                     THEN [exp |-> expire, iat |-> t]
                     ELSE [sub |-> CHOOSE u \in data : TRUE, exp |-> expire, iat |-> t]
    IN  jwt_encode(to_encode, SECRET_KEY, ALGORITHM)

(***************************************************************************)
(* Responses.  `cause' is the server's internal reason (what a log would   *)
(* say) and `arg' the request's path parameter; neither is sent.  What the *)
(* caller observes is Obs(r).                                              *)
(***************************************************************************)
Response(op, status, detail, bearer, body, cause, arg) ==
    [op |-> op, status |-> status, detail |-> detail, www_authenticate |-> bearer,
     body |-> body, cause |-> cause, arg |-> arg]

NoResp == Response("", 0, "", FALSE, <<>>, "", 0)

Obs(r) == [status |-> r.status, detail |-> r.detail,
           www_authenticate |-> r.www_authenticate, body |-> r.body]

\* credentials_exception with a detail that tells which check failed.
credentials_exception_telling(cause) ==
    [ok |-> FALSE, user |-> None, status |-> 401,
     detail |-> IF cause = "ExpiredSignatureError" THEN "Signature has expired"
                ELSE "Could not validate credentials",
     bearer |-> TRUE, cause |-> cause]

\* HTTPException(401, "Could not validate credentials", WWW-Authenticate: Bearer)
credentials_exception(cause) ==
    [ok |-> FALSE, user |-> None, status |-> 401,
     detail |-> "Could not validate credentials", bearer |-> TRUE, cause |-> cause]

\* get_current_user treating an inactive account as one more credential failure.
get_current_user_inactive_401(token, rows, t) ==
    LET dec == jwt_decode(token, SECRET_KEY, {ALGORITHM}, t)
        username == payload_get_sub(dec.payload)
        user == IF username = None THEN None
                ELSE get_user_by_username(rows, CHOOSE u \in username : TRUE)
    IN  IF ~dec.ok THEN credentials_exception(dec.err)
        ELSE IF username = None THEN credentials_exception("NoSubject")
        ELSE IF user = None THEN credentials_exception("PrincipalNotFound")
        ELSE IF \E i \in user : ~rows[i].is_active
        THEN credentials_exception("InactiveAccount")
        ELSE [ok |-> TRUE, user |-> user, status |-> 200,
              detail |-> "", bearer |-> FALSE, cause |-> ""]

\* get_current_user of a backend that is told which tokens clients dropped
\* and refuses them.
get_current_user_revoking(token, rows, t) ==
    LET dec == jwt_decode(token, SECRET_KEY, {ALGORITHM}, t)
        username == payload_get_sub(dec.payload)
        user == IF username = None THEN None
                ELSE get_user_by_username(rows, CHOOSE u \in username : TRUE)
    IN  IF \E d \in discarded : d.token = token THEN credentials_exception("Revoked")
        ELSE IF ~dec.ok THEN credentials_exception(dec.err)
        ELSE IF username = None THEN credentials_exception("NoSubject")
        ELSE IF user = None THEN credentials_exception("PrincipalNotFound")
        ELSE IF \E i \in user : ~rows[i].is_active
        THEN [ok |-> FALSE, user |-> None, status |-> 400,
              detail |-> "Inactive user", bearer |-> FALSE, cause |-> "InactiveAccount"]
        ELSE [ok |-> TRUE, user |-> user, status |-> 200,
              detail |-> "", bearer |-> FALSE, cause |-> ""]

\* auth.get_current_user(token, db)
get_current_user(token, rows, t) ==
    LET dec == jwt_decode(token, SECRET_KEY, {ALGORITHM}, t)
        username == payload_get_sub(dec.payload)
        user == IF username = None THEN None
                ELSE get_user_by_username(rows, CHOOSE u \in username : TRUE)
    IN  IF ~dec.ok THEN credentials_exception(dec.err)
        ELSE IF username = None THEN credentials_exception("NoSubject")
        ELSE IF user = None THEN credentials_exception("PrincipalNotFound")
        ELSE IF \E i \in user : ~rows[i].is_active
        THEN [ok |-> FALSE, user |-> None, status |-> 400,
              detail |-> "Inactive user", bearer |-> FALSE, cause |-> "InactiveAccount"]
        ELSE [ok |-> TRUE, user |-> user, status |-> 200,
              detail |-> "", bearer |-> FALSE, cause |-> ""]

\* The response of a handler whose dependency get_current_user raised.
AuthFailure(op, cu, arg) == Response(op, cu.status, cu.detail, cu.bearer, <<>>, cu.cause, arg)

(***************************************************************************)
(* schemas.py: request validation and response models                      *)
(***************************************************************************)
\* UserBase.username: Field(min_length=3, max_length=50) and username_alphanumeric
valid_username(v) ==
    /\ TextOf(v).len >= MIN_USERNAME_LEN
    /\ TextOf(v).len <= MAX_USERNAME_LEN
    /\ TextOf(v).word

\* UserCreate.password: Field(min_length=8) and password_strength
password_strength(v) ==
    /\ TextOf(v).len >= MIN_PASSWORD_LEN
    /\ TextOf(v).upper
    /\ TextOf(v).lower
    /\ TextOf(v).digit

\* schemas.User (response_model): the row without its password hash
UserOut(id, row) ==
    [id |-> id, username |-> row.username, email |-> row.email, is_active |-> row.is_active]

\* schemas.InventoryItem (response_model)
ItemOut(id, row) == [id |-> id, quantity |-> row.quantity, owner_id |-> row.owner_id]

\* item_update_dict for a schema that declared every key of the request body.
item_update_dict_all(raw) == raw

\* InventoryItemUpdate(...).dict(exclude_unset=True): the fields of the
\* schema that the request set; any other key of the request body is dropped.
item_update_dict(raw) == [k \in DOMAIN raw \cap {"quantity"} |-> raw[k]]

\* crud.update_item's loop: setattr(db_item, field, value) for each field
apply_item_update(row, item_update) ==
    [k \in DOMAIN row |-> IF k \in DOMAIN item_update THEN item_update[k] ELSE row[k]]

\* No script run of the client has finished since the last server step.
NoPage == [op |-> "", view |-> "", error |-> "", sent |-> <<>>]

\* erp_frontend/app.py, session state initialization
NoSession == [token |-> None, user |-> None, last_activity |-> None, inventory |-> <<>>]

\* No registration request is between its first check and its insert.
Idle == [pc |-> "idle", username |-> "", email |-> None]

\* A step of the backend alone: the client and the requests in progress stay.
ServerOnly ==
    /\ page' = NoPage
    /\ UNCHANGED <<session_state, discarded, inflight>>

\* What a successful login of the principal user leaves in granted.
Grant(access_token, user) ==
    {[token |-> access_token, is_active |-> \A i \in user : users[i].is_active]}

(***************************************************************************)
(* Initial state: init_db() has created the empty tables, the browser      *)
(* session is new.                                                         *)
(***************************************************************************)
Init ==
    /\ users = NoRows
    /\ items = NoRows
    /\ now = 0
    /\ held = {}
    /\ resp = NoResp
    /\ session_state = NoSession
    /\ page = NoPage
    /\ discarded = {}
    /\ inflight = [r \in RequestIds |-> Idle]
    /\ granted = {}

(***************************************************************************)
(* main.py: authentication endpoints                                       *)
(***************************************************************************)
\* The exception handlers of main.py: an HTTPException keeps its status and
\* detail; any other exception becomes 500 "Internal server error".
global_exception_handler(op, cause) ==
    Response(op, 500, "Internal server error", FALSE, <<>>, cause, 0)

\* crud.create_user, up to the commit: what it raises, or "" when it inserts
create_user_error(rows, username, email, store_ok) ==
    IF get_user_by_username(rows, username) # None THEN "Username already registered"
    ELSE IF email # None /\ \E e \in email : get_user_by_email(rows, e) # None
    THEN "Email already registered"
    ELSE IF ~store_ok THEN "SQLAlchemyError"
    ELSE ""

\* POST /api/register
register_user(username, email, password, store_ok) ==
    LET err == create_user_error(users, username, email, store_ok)
        id  == NextId(users)
        row == [username |-> username, email |-> email,
                hashed_password |-> get_password_hash(password), is_active |-> TRUE]
    IN  /\ IF ~valid_username(username) \/ ~password_strength(password)
           THEN /\ resp' = Response("register", 422, "validation error", FALSE, <<>>, "RequestValidationError", 0)
                /\ users' = users
           ELSE IF err # ""
           THEN /\ resp' = global_exception_handler("register", err)
                /\ users' = users
           ELSE /\ users' = Insert(users, id, row)
                /\ resp' = Response("register", 201, "", FALSE, <<UserOut(id, row)>>, "", 0)
        /\ UNCHANGED <<items, now, held>>
        /\ ServerOnly
        /\ granted' = granted

\* login_failure with a message that tells an unknown user from a wrong password.
login_failure_telling(cause) ==
    Response("login", 401,
             IF cause = "UnknownUser" THEN "Unknown username" ELSE "Incorrect password",
             TRUE, <<>>, cause, 0)

\* The HTTPException login_for_access_token raises when authenticate_user
\* returns None.
login_failure(cause) ==
    Response("login", 401, "Incorrect username or password", TRUE, <<>>, cause, 0)

\* POST /api/token
login_for_access_token(username, password) ==
    LET user == authenticate_user(users, username, password)
        access_token == create_access_token({users[CHOOSE i \in user : TRUE].username},
                                            {ACCESS_TOKEN_EXPIRE_MINUTES}, now)
    IN  /\ IF user = None
           THEN /\ resp' = login_failure(IF get_user_by_username(users, username) = None
                                             /\ get_user_by_email(users, username) = None
                                          THEN "UnknownUser" ELSE "WrongPassword")
                /\ held' = held
                /\ granted' = granted
           ELSE /\ resp' = Response("login", 200, "", FALSE,
                                    <<[access_token |-> access_token, token_type |-> "bearer"]>>, "", 0)
                /\ held' = {access_token}
                /\ granted' = Grant(access_token, user)
        /\ UNCHANGED <<users, items, now>>
        /\ ServerOnly

\* GET /api/users/me
read_users_me ==
    \E token \in held :
        LET cu == get_current_user(token, users, now)
        IN  /\ resp' = IF ~cu.ok THEN AuthFailure("me", cu, 0)
                       ELSE Response("me", 200, "", FALSE,
                                     <<UserOut(CHOOSE i \in cu.user : TRUE, users[CHOOSE i \in cu.user : TRUE])>>, "", 0)
            /\ UNCHANGED <<users, items, now, held>>
            /\ ServerOnly
            /\ granted' = granted

(***************************************************************************)
(* main.py: inventory endpoints                                            *)
(***************************************************************************)
\* crud.get_items(...).offset(skip).limit(limit).all(), in id order
RECURSIVE rows_in_order(_, _)
rows_in_order(rows, ids) ==
    IF ids = {} THEN <<>>
    ELSE LET i == CHOOSE x \in ids : \A y \in ids : x <= y
         IN  <<ItemOut(i, rows[i])>> \o rows_in_order(rows, ids \ {i})

\* get_items without its owner_id filter.
get_items_all(rows, skip, limit, owner_id) ==
    LET all == rows_in_order(rows, DOMAIN rows)
    IN  SubSeq(all, skip + 1, IF skip + limit < Len(all) THEN skip + limit ELSE Len(all))

get_items(rows, skip, limit, owner_id) ==
    LET all == rows_in_order(rows, {i \in DOMAIN rows : rows[i].owner_id = owner_id})
    IN  SubSeq(all, skip + 1, IF skip + limit < Len(all) THEN skip + limit ELSE Len(all))

\* item_guard without its ownership check.
item_guard_any_owner(rows, item_id, current_user) ==
    IF item_id \notin DOMAIN rows THEN 404 ELSE 0

\* item_guard answering 404 for another principal's item as well.
item_guard_merged(rows, item_id, current_user) ==
    IF item_id \notin DOMAIN rows THEN 404
    ELSE IF rows[item_id].owner_id # current_user THEN 404
    ELSE 0

\* The existence check and then the ownership check of read_item,
\* update_item and delete_item: the HTTPException raised, or 0 for none.
item_guard(rows, item_id, current_user) ==
    IF item_id \notin DOMAIN rows THEN 404
    ELSE IF rows[item_id].owner_id # current_user THEN 403
    ELSE 0

item_refusal(op, status, item_id) ==
    IF status = 404
    THEN Response(op, 404, "Item not found", FALSE, <<>>, "NotFound", item_id)
    ELSE Response(op, 403, "Not enough permissions", FALSE, <<>>, "NotOwner", item_id)

\* POST /api/items/
create_item(quantity) ==
    \E token \in held :
        LET cu  == get_current_user(token, users, now)
            id  == NextId(items)
            row == [quantity |-> quantity, owner_id |-> CHOOSE i \in cu.user : TRUE]
        IN  /\ cu.ok => id <= MaxItemId
            /\ IF ~cu.ok
               THEN /\ resp' = AuthFailure("create_item", cu, 0)
                    /\ items' = items
               ELSE /\ items' = Insert(items, id, row)
                    /\ resp' = Response("create_item", 201, "", FALSE, <<ItemOut(id, row)>>, "", id)
            /\ UNCHANGED <<users, now, held>>
            /\ ServerOnly
            /\ granted' = granted

\* GET /api/items/
read_items(skip, limit) ==
    \E token \in held :
        LET cu == get_current_user(token, users, now)
        IN  /\ resp' = IF ~cu.ok THEN AuthFailure("read_items", cu, 0)
                       ELSE Response("read_items", 200, "", FALSE,
                                     get_items(items, skip, limit, CHOOSE i \in cu.user : TRUE), "", 0)
            /\ UNCHANGED <<users, items, now, held>>
            /\ ServerOnly
            /\ granted' = granted

\* GET /api/items/{item_id}
read_item(item_id) ==
    \E token \in held :
        LET cu == get_current_user(token, users, now)
            refused == item_guard(items, item_id, CHOOSE i \in cu.user : TRUE)
        IN  /\ resp' = IF ~cu.ok THEN AuthFailure("read_item", cu, item_id)
                       ELSE IF refused # 0 THEN item_refusal("read_item", refused, item_id)
                       ELSE Response("read_item", 200, "", FALSE,
                                     <<ItemOut(item_id, items[item_id])>>, "", item_id)
            /\ UNCHANGED <<users, items, now, held>>
            /\ ServerOnly
            /\ granted' = granted

\* PUT /api/items/{item_id}
update_item(item_id, raw) ==
    \E token \in held :
        LET cu == get_current_user(token, users, now)
            refused == item_guard(items, item_id, CHOOSE i \in cu.user : TRUE)
            row == apply_item_update(items[item_id], item_update_dict(raw))
        IN  /\ IF ~cu.ok
               THEN /\ resp' = AuthFailure("update_item", cu, item_id)
                    /\ items' = items
               ELSE IF refused # 0
               THEN /\ resp' = item_refusal("update_item", refused, item_id)
                    /\ items' = items
               ELSE /\ items' = [items EXCEPT ![item_id] = row]
                    /\ resp' = Response("update_item", 200, "", FALSE, <<ItemOut(item_id, row)>>,
                                        IF DOMAIN raw = DOMAIN item_update_dict(raw)
                                        THEN "" ELSE "ExtraFieldsIgnored",
                                        item_id)
            /\ UNCHANGED <<users, now, held>>
            /\ ServerOnly
            /\ granted' = granted

\* delete_item deleting the row before its ownership check.
delete_item_unguarded(item_id) ==
    \E token \in held :
        LET cu == get_current_user(token, users, now)
            refused == item_guard(items, item_id, CHOOSE i \in cu.user : TRUE)
        IN  /\ IF ~cu.ok
               THEN /\ resp' = AuthFailure("delete_item", cu, item_id)
                    /\ items' = items
               ELSE /\ items' = Remove(items, item_id)
                    /\ resp' = IF refused # 0 THEN item_refusal("delete_item", refused, item_id)
                               ELSE Response("delete_item", 204, "", FALSE, <<>>, "", item_id)
            /\ UNCHANGED <<users, now, held>>
            /\ ServerOnly
            /\ granted' = granted

\* DELETE /api/items/{item_id}
delete_item(item_id) ==
    \E token \in held :
        LET cu == get_current_user(token, users, now)
            refused == item_guard(items, item_id, CHOOSE i \in cu.user : TRUE)
        IN  /\ IF ~cu.ok
               THEN /\ resp' = AuthFailure("delete_item", cu, item_id)
                    /\ items' = items
               ELSE IF refused # 0
               THEN /\ resp' = item_refusal("delete_item", refused, item_id)
                    /\ items' = items
               ELSE /\ items' = Remove(items, item_id)
                    /\ resp' = Response("delete_item", 204, "", FALSE, <<>>, "", item_id)
            /\ UNCHANGED <<users, now, held>>
            /\ ServerOnly
            /\ granted' = granted

(***************************************************************************)
(* The environment: the clock, the process, the store's administrator,     *)
(* and whoever handles a token between its issue and its presentation.     *)
(***************************************************************************)
\* Time passes: the clock advances by d minutes.
Tick(d) ==
    /\ now + d <= MaxTime
    /\ now' = now + d
    /\ resp' = NoResp
    /\ UNCHANGED <<users, items, held>>
    /\ ServerOnly
    /\ granted' = granted

\* database.init_db at process start (ENVIRONMENT defaults to development):
\* drop_all, then create_all.  Tokens issued before the restart stay signed
\* with the same SECRET_KEY.
init_db ==
    /\ users # NoRows
    /\ users' = NoRows
    /\ items' = NoRows
    /\ resp' = NoResp
    /\ UNCHANGED <<now, held>>
    /\ ServerOnly
    /\ granted' = granted

\* crud.update_user with the update {is_active: value}
update_user(id, value) ==
    /\ id \in DOMAIN users
    /\ users[id].is_active # value
    /\ users' = [users EXCEPT ![id].is_active = value]
    /\ resp' = NoResp
    /\ UNCHANGED <<items, now, held>>
    /\ ServerOnly
    /\ granted' = granted

\* A direct call of auth.create_access_token(data, expires_delta).
issue_token(data, expires_delta) ==
    /\ held' = {create_access_token(data, expires_delta, now)}
    /\ resp' = NoResp
    /\ UNCHANGED <<users, items, now>>
    /\ ServerOnly
    /\ granted' = {}

ValidlySigned(token) ==
    token.alg = ALGORITHM /\ token.sig = Sign(SECRET_KEY, token.alg, token.claims)

\* The holder of a valid token rewrites its subject and keeps the signature.
TamperSub(u) ==
    \E token \in held :
        /\ ValidlySigned(token)
        /\ "sub" \in DOMAIN token.claims
        /\ token.claims.sub # u
        /\ held' = {[token EXCEPT !.claims.sub = u]}
        /\ resp' = NoResp
        /\ UNCHANGED <<users, items, now>>
        /\ ServerOnly
        /\ granted' = {}

\* The holder of a valid token moves its expiry to the end of the model's
\* time and keeps the signature.
TamperExp ==
    \E token \in held :
        /\ ValidlySigned(token)
        /\ held' = {[token EXCEPT !.claims.exp = MaxTime + ACCESS_TOKEN_EXPIRE_MINUTES + 1]}
        /\ resp' = NoResp
        /\ UNCHANGED <<users, items, now>>
        /\ ServerOnly
        /\ granted' = {}

\* The holder of a valid token replaces its signature by one made with a
\* key of their own.
TamperSig ==
    \E token \in held :
        /\ ValidlySigned(token)
        /\ held' = {[token EXCEPT !.sig = Sign(ForgedKey, token.alg, token.claims)]}
        /\ resp' = NoResp
        /\ UNCHANGED <<users, items, now>>
        /\ ServerOnly
        /\ granted' = {}

\* The holder of a valid token declares it unsigned ("alg": "none").
TamperAlg ==
    \E token \in held :
        /\ ValidlySigned(token)
        /\ held' = {[token EXCEPT !.alg = "none", !.sig = Sign("", "none", token.claims)]}
        /\ resp' = NoResp
        /\ UNCHANGED <<users, items, now>>
        /\ ServerOnly
        /\ granted' = {}

(***************************************************************************)
(* Request inputs                                                          *)
(***************************************************************************)
OptionalEmails == {None} \cup {{e} : e \in Emails}
RegisterUsernames == Usernames \cup {BadUsername}
RegisterPasswords == {GoodPassword, WeakPassword}
LoginNames == Usernames \cup Emails
LoginPasswords == {GoodPassword, OtherPassword}
ItemIds == 1..MaxItemId
RawUpdates ==
    {[k \in {} |-> 0]}
    \cup {[k \in {"quantity"} |-> q] : q \in Quantities}
    \cup {[k \in {"quantity", "owner_id"} |-> IF k = "quantity" THEN q ELSE o] :
            q \in Quantities, o \in 1..Cardinality(Usernames)}
Deltas == {None, {0}, {1}, {ACCESS_TOKEN_EXPIRE_MINUTES}, {-1}, {-ACCESS_TOKEN_EXPIRE_MINUTES}}
TokenData == {None} \cup {{u} : u \in Usernames}

(***************************************************************************)
(* POST /api/register, statement by statement.  Several requests are in    *)
(* progress at once (one per worker process); each runs crud.create_user   *)
(* against the same store: the username query, the email query, then the   *)
(* INSERT at db.commit().                                                  *)
(***************************************************************************)
\* The users table without its UNIQUE indexes.
unique_violation_never(rows, row) == FALSE

\* models.User: username and email are unique=True; the store refuses an
\* INSERT that repeats a username or a non-NULL email (IntegrityError).
unique_violation(rows, row) ==
    \E i \in DOMAIN rows :
        \/ rows[i].username = row.username
        \/ row.email # None /\ rows[i].email = row.email

RaceOnly ==
    /\ page' = NoPage
    /\ UNCHANGED <<items, now, held, session_state, discarded, granted>>

\* The request body has passed validation and create_user is entered.
begin_register(r, username, email) ==
    /\ inflight[r].pc = "idle"
    /\ inflight' = [inflight EXCEPT ![r] = [pc |-> "check_username", username |-> username, email |-> email]]
    /\ resp' = NoResp
    /\ users' = users
    /\ RaceOnly

\* crud.create_user: get_user_by_username and the first raise
check_username(r) ==
    /\ inflight[r].pc = "check_username"
    /\ IF get_user_by_username(users, inflight[r].username) # None
       THEN /\ resp' = global_exception_handler("register", "Username already registered")
            /\ inflight' = [inflight EXCEPT ![r] = Idle]
       ELSE /\ resp' = NoResp
            /\ inflight' = [inflight EXCEPT ![r].pc = "check_email"]
    /\ users' = users
    /\ RaceOnly

\* crud.create_user: get_user_by_email and the second raise
check_email(r) ==
    /\ inflight[r].pc = "check_email"
    /\ IF \E e \in inflight[r].email : get_user_by_email(users, e) # None
       THEN /\ resp' = global_exception_handler("register", "Email already registered")
            /\ inflight' = [inflight EXCEPT ![r] = Idle]
       ELSE /\ resp' = NoResp
            /\ inflight' = [inflight EXCEPT ![r].pc = "insert"]
    /\ users' = users
    /\ RaceOnly

\* crud.create_user: db.add, db.commit, db.refresh
insert_user(r) ==
    LET id  == NextId(users)
        row == [username |-> inflight[r].username, email |-> inflight[r].email,
                hashed_password |-> get_password_hash(GoodPassword), is_active |-> TRUE]
    IN  /\ inflight[r].pc = "insert"
        /\ IF unique_violation(users, row)
           THEN /\ resp' = global_exception_handler("register", "IntegrityError")
                /\ users' = users
           ELSE /\ users' = Insert(users, id, row)
                /\ resp' = Response("register", 201, "", FALSE, <<UserOut(id, row)>>, "", 0)
        /\ inflight' = [inflight EXCEPT ![r] = Idle]
        /\ RaceOnly

(***************************************************************************)
(* erp_frontend/app.py: the session cache of the Streamlit client.  One    *)
(* action is one run of the script for one interaction of the user, with   *)
(* the requests it sends answered by the backend at the same instant; a    *)
(* st.rerun() belongs to the run that calls it.  The client reads the      *)
(* same clock as the backend.  Requests that fail on the network are left  *)
(* out.                                                                    *)
(***************************************************************************)
\* main.read_users_me and main.read_items (with its default skip and limit)
\* behind their dependency, whose outcome is cu.
api_answer(endpoint, cu) ==
    IF ~cu.ok THEN [status |-> cu.status, body |-> <<>>]
    ELSE [status |-> 200,
          body |-> IF endpoint = "/users/me"
                   THEN <<UserOut(CHOOSE i \in cu.user : TRUE, users[CHOOSE i \in cu.user : TRUE])>>
                   ELSE get_items(items, 0, READ_ITEMS_LIMIT, CHOOSE i \in cu.user : TRUE)]

\* The backend's answer to GET endpoint with the bearer token.
api_get(endpoint, token) == api_answer(endpoint, get_current_user(token, users, now))

\* make_authenticated_request after requests.request has returned response.
after_request(ss, endpoint, token, response) ==
    IF response.status = 401
    THEN [session |-> [ss EXCEPT !.token = None, !.user = None],
          response |-> None,
          sent |-> <<[token |-> token, endpoint |-> endpoint, status |-> response.status]>>,
          rerun |-> TRUE]
    ELSE [session |-> ss,
          response |-> {response},
          sent |-> <<[token |-> token, endpoint |-> endpoint, status |-> response.status]>>,
          rerun |-> FALSE]

\* make_authenticated_request(method, endpoint): the session afterwards, the
\* response returned (None or one response), the requests sent, and
\* whether st.rerun() was called.
make_authenticated_request(ss, endpoint) ==
    IF ss.token = None
    THEN [session |-> ss, response |-> None, sent |-> <<>>, rerun |-> FALSE]
    ELSE after_request(ss, endpoint, CHOOSE x \in ss.token : TRUE,
                       api_get(endpoint, CHOOSE x \in ss.token : TRUE))

\* load_inventory() after make_authenticated_request has returned m.
store_inventory(m) ==
    [session |-> IF \E r \in m.response : r.status = 200
                 THEN [m.session EXCEPT !.inventory = (CHOOSE r \in m.response : TRUE).body]
                 ELSE m.session,
     sent |-> m.sent, rerun |-> m.rerun]

\* load_inventory()
load_inventory(ss) == store_inventory(make_authenticated_request(ss, "/items/"))

\* check_session_timeout without its test of the inactive duration.
check_session_timeout_never(ss, t) ==
    [ok |-> TRUE, session |-> [ss EXCEPT !.last_activity = {t}]]

\* check_session_timeout of a client that gets a fresh token for the subject
\* of the cached one each time it refreshes last_activity.
check_session_timeout_renewing(ss, t) ==
    IF \E last_activity \in ss.last_activity : t - last_activity > INACTIVITY_LIMIT_MINUTES
    THEN [ok |-> FALSE,
          session |-> [ss EXCEPT !.token = None, !.user = None, !.last_activity = None]]
    ELSE [ok |-> TRUE,
          session |-> [ss EXCEPT !.last_activity = {t},
                                 !.token = {create_access_token({token.claims.sub},
                                                                {ACCESS_TOKEN_EXPIRE_MINUTES}, t) :
                                            token \in ss.token}]]

\* check_session_timeout(): what it returns and the session afterwards
check_session_timeout(ss, t) ==
    IF \E last_activity \in ss.last_activity : t - last_activity > INACTIVITY_LIMIT_MINUTES
    THEN [ok |-> FALSE,
          session |-> [ss EXCEPT !.token = None, !.user = None, !.last_activity = None]]
    ELSE [ok |-> TRUE, session |-> [ss EXCEPT !.last_activity = {t}]]

\* main() once the inventory is there or load_inventory() has returned l.
show_main(l) ==
    IF l.rerun
    THEN [session |-> l.session, view |-> "login_form", error |-> "", sent |-> l.sent]
    ELSE [session |-> l.session, view |-> "main", error |-> "", sent |-> l.sent]

\* main() of a logged-in session once check_session_timeout() has returned c.
main_logged_in(c) ==
    IF ~c.ok
    THEN [session |-> c.session, view |-> "", error |-> "SessionTimeout", sent |-> <<>>]
    ELSE show_main(IF c.session.inventory = <<>> THEN load_inventory(c.session)
                   ELSE [session |-> c.session, sent |-> <<>>, rerun |-> FALSE])

\* main() up to show_sidebar(): the session afterwards, what is shown, and
\* the requests sent.
run_main(ss) ==
    IF ss.token = None \/ ss.user = None
    THEN [session |-> ss, view |-> "login_form", error |-> "", sent |-> <<>>]
    ELSE main_logged_in(check_session_timeout(ss, now))

\* A step of the client: the backend's tables and clock stay.
ClientOnly ==
    /\ resp' = NoResp
    /\ UNCHANGED <<users, items, now, inflight>>

\* The token that a run dropped from the cache, with the event that dropped it.
Dropped(before, after, event) ==
    IF before.token # None /\ after.token = None
    THEN {[token |-> CHOOSE x \in before.token : TRUE, event |-> event]}
    ELSE discarded

\* A run of the script for an interaction that clicks nothing that sends a
\* request of its own.
main ==
    \E r \in {run_main(session_state)} :
        /\ session_state' = r.session
        /\ page' = [op |-> "main", view |-> r.view, error |-> r.error, sent |-> r.sent]
        /\ discarded' = Dropped(session_state, r.session,
                                IF r.error = "SessionTimeout" THEN "timeout" ELSE "rejected")
        /\ held' = held
        /\ granted' = granted
        /\ ClientOnly

\* A run of the script in which the Logout button of the sidebar is clicked.
logout ==
    \E r \in {run_main(session_state)} :
        /\ r.view = "main"
        /\ session_state' = [r.session EXCEPT !.token = None, !.user = None]
        /\ page' = [op |-> "logout", view |-> "login_form", error |-> "", sent |-> r.sent]
        /\ discarded' = Dropped(session_state, session_state', "logout")
        /\ held' = held
        /\ granted' = granted
        /\ ClientOnly

\* login() once /users/me has answered 200 in me, and the st.rerun() of the
\* login form after it.
login_succeeded(me, l) ==
    [run_main(l.session) EXCEPT !.sent = me.sent \o l.sent \o @]

\* A run of the script in which the login form is submitted: login(username,
\* password), and the st.rerun() that follows its success.
login(username, password) ==
    /\ session_state.token = None \/ session_state.user = None
    /\ \E user \in {authenticate_user(users, username, password)} :
         IF user = None
         THEN /\ session_state' = session_state
              /\ page' = [op |-> "login", view |-> "login_form", error |-> "LoginFailed", sent |-> <<>>]
              /\ held' = held
              /\ granted' = granted
         ELSE \E access_token \in {create_access_token({users[CHOOSE i \in user : TRUE].username},
                                                       {ACCESS_TOKEN_EXPIRE_MINUTES}, now)} :
              \E me \in {make_authenticated_request([session_state EXCEPT !.token = {access_token}],
                                                    "/users/me")} :
                /\ held' = {access_token}
                /\ granted' = Grant(access_token, user)
                /\ IF \E response \in me.response : response.status = 200
                   THEN \E l \in {load_inventory([me.session EXCEPT
                                        !.user = {(CHOOSE response \in me.response : TRUE).body[1]},
                                        !.last_activity = {now},
                                        !.inventory = <<>>])} :
                        \E r \in {login_succeeded(me, l)} :
                            /\ session_state' = r.session
                            /\ page' = [op |-> "login", view |-> r.view, error |-> r.error, sent |-> r.sent]
                   ELSE /\ session_state' = me.session
                        /\ page' = [op |-> "login", view |-> "login_form", error |-> "", sent |-> me.sent]
    /\ discarded' = discarded
    /\ ClientOnly

(***************************************************************************)
(* Specifications                                                          *)
(***************************************************************************)
Register ==
    \E u \in RegisterUsernames, e \in OptionalEmails, p \in RegisterPasswords, ok \in BOOLEAN :
        register_user(u, e, p, ok)

Login == \E u \in LoginNames, p \in LoginPasswords : login_for_access_token(u, p)

SetActive == \E id \in DOMAIN users, v \in BOOLEAN : update_user(id, v)

\* Accounts, tokens and time: registration, login, the protected call
\* /api/users/me, and everything that can happen to a token or an account
\* between the issue of the token and its presentation.
Next ==
    \/ Register
    \/ Login
    \/ read_users_me
    \/ SetActive
    \/ init_db
    \/ issue_token(None, {ACCESS_TOKEN_EXPIRE_MINUTES})
    \/ \E u \in Usernames : TamperSub(u)
    \/ TamperExp
    \/ TamperSig
    \/ TamperAlg
    \/ \E d \in TickSteps : Tick(d)

Spec == Init /\ [][Next]_vars

\* Accounts and inventory items at one instant of the clock.  Accounts are
\* registered without an email and logged in with their password: neither
\* matters to an item.
NextItems ==
    \/ \E u \in Usernames : register_user(u, None, GoodPassword, TRUE)
    \/ \E u \in Usernames : login_for_access_token(u, GoodPassword)
    \/ SetActive
    \/ TamperSig
    \/ \E q \in Quantities : create_item(q)
    \/ \E skip \in 0..MaxItemId, limit \in 0..MaxItemId : read_items(skip, limit)
    \/ \E id \in ItemIds : read_item(id)
    \/ \E id \in ItemIds, raw \in RawUpdates : update_item(id, raw)
    \/ \E id \in ItemIds : delete_item(id)

SpecItems == Init /\ [][NextItems]_vars

\* create_access_token as a function of its arguments and the clock.
NextToken ==
    \/ \E data \in TokenData, d \in Deltas : issue_token(data, d)
    \/ \E d \in TickSteps : Tick(d)

SpecToken == Init /\ [][NextToken]_vars

\* The client session against the backend: accounts come and go, time
\* passes, and whoever saw a token on the wire can present it directly.
NextClient ==
    \/ \E u \in Usernames : register_user(u, None, GoodPassword, TRUE)
    \/ SetActive
    \/ init_db
    \/ \E u \in Usernames, p \in LoginPasswords : login(u, p)
    \/ main
    \/ logout
    \/ read_users_me
    \/ \E d \in TickSteps : Tick(d)

SpecClient == Init /\ [][NextClient]_vars

\* Every protected endpoint, with accounts that are switched off and on,
\* restarts of the backend, and time.  The table holds one item at most.
NextInactive ==
    \/ \E u \in Usernames : register_user(u, None, GoodPassword, TRUE)
    \/ \E u \in Usernames, p \in LoginPasswords : login_for_access_token(u, p)
    \/ SetActive
    \/ init_db
    \/ \E d \in TickSteps : Tick(d)
    \/ read_users_me
    \/ items = NoRows /\ create_item(1)
    \/ read_items(0, MaxItemId)
    \/ read_item(1)
    \/ update_item(1, [k \in {"quantity"} |-> 2])
    \/ delete_item(1)

SpecInactive == Init /\ [][NextInactive]_vars

\* Registration requests that overlap in time.
NextRace ==
    \/ \E r \in RequestIds, u \in Usernames, e \in OptionalEmails : begin_register(r, u, e)
    \/ \E r \in RequestIds : check_username(r)
    \/ \E r \in RequestIds : check_email(r)
    \/ \E r \in RequestIds : insert_user(r)

SpecRace == Init /\ [][NextRace]_vars

(***************************************************************************)
(* Vocabulary of the properties                                            *)
(***************************************************************************)
ItemOps == {"read_item", "update_item", "delete_item"}

\* The rows whose username is the subject a token names.
Named(token) ==
    IF "sub" \in DOMAIN token.claims
    THEN {i \in DOMAIN users : users[i].username = token.claims.sub}
    ELSE {}

SignatureMatches(token) ==
    /\ token.alg = "HS256"
    /\ token.sig.key = SECRET_KEY
    /\ token.sig.alg = token.alg
    /\ token.sig.claims = token.claims

\* A step that ran a handler and produced the response resp'.
Handled(ops) == resp'.op \in ops /\ vars' # vars

CredentialsRefusal ==
    [status |-> 401, detail |-> "Could not validate credentials",
     www_authenticate |-> TRUE, body |-> <<>>]

(***************************************************************************)
(* C1: for an authenticated principal P and an existing item R, read,      *)
(* update and delete are allowed iff R.owner_id = P.id; on an item of      *)
(* another principal the operation is refused with 403 (NotOwner) and the  *)
(* item table is left as it was.                                           *)
(***************************************************************************)
C1_OwnerOnly ==
    [][(Handled(ItemOps) /\ resp'.status \notin {400, 401} /\ resp'.arg \in DOMAIN items) =>
        \A token \in held : \A P \in Named(token) :
            LET R == items[resp'.arg]
            IN  /\ resp'.status \in {200, 204} <=> R.owner_id = P
                /\ R.owner_id # P =>
                     /\ resp'.status = 403
                     /\ resp'.cause = "NotOwner"
                     /\ resp'.body = <<>>
                     /\ items' = items
                /\ (R.owner_id = P /\ resp'.op = "delete_item") => resp'.arg \notin DOMAIN items'
                /\ (R.owner_id = P /\ resp'.op = "read_item") =>
                     resp'.body = <<ItemOut(resp'.arg, R)>> /\ items' = items
                /\ (R.owner_id = P /\ resp'.op = "update_item") =>
                     resp'.body = <<ItemOut(resp'.arg, items'[resp'.arg])>>
      ]_vars

\* A principal has just been refused the deletion of another principal's item.
C1_Witness ==
    /\ resp.op = "delete_item"
    /\ resp.status = 403
    /\ resp.arg \in DOMAIN items
    /\ \E token \in held : \E P \in Named(token) : items[resp.arg].owner_id # P

(***************************************************************************)
(* C2: in read, update and delete of an item the existence check comes     *)
(* before the ownership check and the outcomes are never merged: for an    *)
(* authenticated caller an id with no item always yields 404, and an item  *)
(* of another principal always yields 403, never 404.                      *)
(***************************************************************************)
C2_NotFoundBeforeNotOwner ==
    [][(Handled(ItemOps) /\ resp'.status \notin {400, 401}) =>
        \A token \in held : \A P \in Named(token) :
            /\ resp'.arg \notin DOMAIN items => resp'.status = 404 /\ resp'.cause = "NotFound"
            /\ (resp'.arg \in DOMAIN items /\ items[resp'.arg].owner_id # P) => resp'.status = 403
            /\ resp'.status = 404 => resp'.arg \notin DOMAIN items
            /\ resp'.status = 403 => resp'.arg \in DOMAIN items
      ]_vars

\* An update of an id with no item has just been answered 404 while the
\* caller owns no item at all and another principal does.
C2_Witness ==
    /\ resp.op = "update_item"
    /\ resp.status = 404
    /\ resp.arg \notin DOMAIN items
    /\ \E token \in held : \E P \in Named(token) :
          /\ DOMAIN items # {}
          /\ \A i \in DOMAIN items : items[i].owner_id # P

CredentialFailure(token) ==
    \/ ~SignatureMatches(token)
    \/ token.claims.exp < now
    \/ "sub" \notin DOMAIN token.claims
    \/ Named(token) = {}

C4_InactiveIs400 ==
    resp.op = "me" =>
        \A token \in held :
            /\ (~CredentialFailure(token) /\ \E i \in Named(token) : ~users[i].is_active) =>
                  /\ resp.status = 400
                  /\ resp.detail = "Inactive user"
                  /\ resp.body = <<>>
            /\ resp.status = 400 =>
                  ~CredentialFailure(token) /\ \E i \in Named(token) : ~users[i].is_active
            /\ (SignatureMatches(token) /\ Named(token) = {}) => resp.status = 401

\* The token of an account that was deactivated after login has just been
\* answered 400.
C4_Witness ==
    /\ resp.op = "me"
    /\ resp.status = 400
    /\ \E token \in held : \E i \in Named(token) :
          ~users[i].is_active /\ SignatureMatches(token) /\ token.claims.exp >= now

KnownLogin(name) ==
    \E i \in DOMAIN users : users[i].username = name \/ users[i].email = {name}

WrongPasswordFor(name, password) ==
    \E i \in DOMAIN users :
        /\ users[i].username = name \/ users[i].email = {name}
        /\ users[i].hashed_password # get_password_hash(password)

LoginRefusal ==
    [status |-> 401, detail |-> "Incorrect username or password",
     www_authenticate |-> TRUE, body |-> <<>>]

(***************************************************************************)
(* C5: login with an existing username and a wrong password and login with *)
(* an unknown username have the same observable outcome: 401 "Incorrect    *)
(* username or password"; no token is issued and no server state changes.  *)
(***************************************************************************)
C5_LoginFailuresAlike ==
    [][\A u \in LoginNames, p \in LoginPasswords :
         (login_for_access_token(u, p) /\ (~KnownLogin(u) \/ WrongPasswordFor(u, p))) =>
            /\ Obs(resp') = LoginRefusal
            /\ UNCHANGED <<users, items, now, held>>
      ]_vars

\* A login with an existing username and a wrong password has just failed.
C5_Witness ==
    /\ resp.op = "login"
    /\ resp.cause = "WrongPassword"
    /\ Obs(resp) = LoginRefusal
    /\ \E i \in DOMAIN users : users[i].username \in Usernames

\* The token a login at time t0 gives the account named u: sub = u and a
\* lifetime of 30 minutes, signed with SECRET_KEY.
LoginToken(u, t0) ==
    LET claims == [sub |-> u, exp |-> t0 + 30, iat |-> t0]
    IN  [alg |-> "HS256", claims |-> claims,
         sig |-> [key |-> SECRET_KEY, alg |-> "HS256", claims |-> claims]]

\* What a successful login issues.
C6_LoginIssues ==
    \A u \in LoginNames, p \in LoginPasswords :
        (login_for_access_token(u, p) /\ resp'.status = 200) =>
            \E i \in DOMAIN users :
                /\ users[i].username = u \/ users[i].email = {u}
                /\ held' = {LoginToken(users[i].username, now)}
                /\ resp'.body = <<[access_token |-> LoginToken(users[i].username, now),
                                   token_type |-> "bearer"]>>

\* What presenting a login token 29 and 31 minutes after its issue yields.
C6_LoginTokenPresented ==
    resp.op = "me" =>
        \A token \in held : \A i \in DOMAIN users :
            (users[i].is_active /\ token = LoginToken(users[i].username, token.claims.iat)) =>
                /\ now = token.claims.iat + 29 =>
                      resp.status = 200 /\ resp.body = <<UserOut(i, users[i])>>
                /\ now = token.claims.iat + 31 =>
                      Obs(resp) = CredentialsRefusal /\ resp.cause = "ExpiredSignatureError"

(***************************************************************************)
(* C6: a token issued by a successful login at t0 for principal P carries  *)
(* sub = P.username and a 30-minute lifetime; presented at t0 + 29 (P      *)
(* existing and active) it resolves to P, and presented at t0 + 31 it is   *)
(* refused as expired.                                                     *)
(***************************************************************************)
C6_LoginTokenLifetime == [][C6_LoginIssues]_vars /\ []C6_LoginTokenPresented

\* A login token has just been accepted 29 minutes after its issue.
C6_Witness ==
    /\ resp.op = "me"
    /\ resp.status = 200
    /\ \E token \in held : \E i \in DOMAIN users :
          /\ token = LoginToken(users[i].username, now - 29)
          /\ resp.body = <<UserOut(i, users[i])>>

(***************************************************************************)
(* C7: token resolution accepts a validly signed token only when           *)
(* now < exp; for every now >= exp, now = exp included, the token is       *)
(* refused as expired.                                                     *)
(***************************************************************************)
C7_RefusedFromExpiryOn ==
    resp.op = "me" =>
        \A token \in held :
            (SignatureMatches(token) /\ now >= token.claims.exp) =>
                Obs(resp) = CredentialsRefusal

(***************************************************************************)
(* C8: every token minted by create_access_token, whatever expires_delta   *)
(* the caller passes (absent, zero, positive, negative), has exp strictly  *)
(* after iat.                                                              *)
(***************************************************************************)
C8_ExpiryAfterIssue ==
    \A token \in held : token.claims.exp > token.claims.iat

(***************************************************************************)
(* C9: a token whose payload or signature was changed without the secret   *)
(* never resolves: get_current_user returns no principal for a token whose *)
(* signature does not match its header and payload under SECRET_KEY.       *)
(***************************************************************************)
C9_TamperedNeverResolves ==
    resp.op = "me" =>
        \A token \in held :
            ~SignatureMatches(token) =>
                /\ Obs(resp) = CredentialsRefusal
                /\ resp.cause = "JWSError"

\* A token whose subject was rewritten to the name of an existing, active
\* account, and which has not expired, has just been refused.
C9_Witness ==
    /\ resp.op = "me"
    /\ resp.status = 401
    /\ \E token \in held : \E i \in Named(token) :
          /\ users[i].is_active
          /\ token.claims.exp >= now
          /\ token.sig.key = SECRET_KEY
          /\ token.sig.claims.sub # token.claims.sub

DuplicateCauses == {"Username already registered", "Email already registered"}

(***************************************************************************)
(* C10: registration with a username or an email that an existing          *)
(* principal holds fails with a conflict failure of its own, which the     *)
(* caller can tell from every other failure of the register endpoint, and  *)
(* creates or changes no principal.                                        *)
(***************************************************************************)
C10_DuplicateTold ==
    [][/\ (/\ resp.op = "register" /\ resp.cause \in DuplicateCauses
           /\ resp'.op = "register" /\ resp'.status # 201 /\ resp'.cause \notin DuplicateCauses)
          => Obs(resp) # Obs(resp')
       /\ \A u \in RegisterUsernames, e \in OptionalEmails, p \in RegisterPasswords, ok \in BOOLEAN :
            (/\ register_user(u, e, p, ok)
             /\ \E i \in DOMAIN users : users[i].username = u \/ (e # None /\ users[i].email = e))
            => resp'.status # 201 /\ users' = users
      ]_vars


(***************************************************************************)
(* C11: the owner of an item is fixed when the item is created.  Every     *)
(* item has a non-null owner_id; a new item appears only by create_item    *)
(* and is owned by the principal that created it; and no later step, in    *)
(* particular no update whose payload names an owner_id, changes the       *)
(* owner_id of an item.                                                    *)
(***************************************************************************)
C11_OwnerFixedAtCreation ==
    [][/\ \A i \in DOMAIN items' : items'[i].owner_id \in DOMAIN users'
       /\ \A i \in DOMAIN items \cap DOMAIN items' : items'[i].owner_id = items[i].owner_id
       /\ \A i \in DOMAIN items' \ DOMAIN items :
            /\ resp'.op = "create_item"
            /\ resp'.status = 201
            /\ resp'.body = <<ItemOut(i, items'[i])>>
            /\ \E token \in held : Named(token) = {items'[i].owner_id}
      ]_vars

\* An update whose payload carried an owner_id has just been accepted, there
\* is another principal the payload could name, and the item is still the
\* caller's.
C11_Witness ==
    /\ resp.op = "update_item"
    /\ resp.status = 200
    /\ resp.cause = "ExtraFieldsIgnored"
    /\ Cardinality(DOMAIN users) = 2
    /\ \E token \in held : Named(token) = {items[resp.arg].owner_id}

(***************************************************************************)
(* C19: a refused item operation leaves the store as it was.  When read,   *)
(* update or delete of an item is answered 401, 400, 403 or 404, no        *)
(* inventory item and no principal is created, modified or removed.        *)
(***************************************************************************)
C19_RefusalChangesNothing ==
    [][(Handled(ItemOps) /\ resp'.status \in {400, 401, 403, 404}) =>
            users' = users /\ items' = items
      ]_vars

\* The owner of an item, whose account has been deactivated, has just been
\* refused the deletion of the item, and the item is still there.
C19_Witness ==
    /\ resp.op = "delete_item"
    /\ resp.status = 400
    /\ resp.arg \in DOMAIN items
    /\ \E token \in held : Named(token) = {items[resp.arg].owner_id}

(***************************************************************************)
(* C20: the item listing GET /api/items/ called by principal P returns     *)
(* only items that exist and whose owner_id is P.id, whatever skip and     *)
(* limit are and whatever items other principals own.                      *)
(***************************************************************************)
C20_ListingOwnOnly ==
    (resp.op = "read_items" /\ resp.status = 200) =>
        \A token \in held : \A P \in Named(token) :
            \A k \in 1..Len(resp.body) :
                /\ resp.body[k].owner_id = P
                /\ resp.body[k].id \in DOMAIN items
                /\ resp.body[k] = ItemOut(resp.body[k].id, items[resp.body[k].id])

\* A listing has just returned an item to its owner while another principal
\* owns an item too.
C20_Witness ==
    /\ resp.op = "read_items"
    /\ resp.status = 200
    /\ Len(resp.body) >= 1
    /\ \E token \in held : \E P \in Named(token) : \E i \in DOMAIN items : items[i].owner_id # P

(***************************************************************************)
(* C16: under every interleaving of registration requests, each doing the  *)
(* username check, the email check and then the insert, the store never    *)
(* holds two principals with the same username, nor two principals with    *)
(* the same non-null email: of several concurrent registrations of one     *)
(* username at most one creates a principal.                               *)
(***************************************************************************)
C16_NoDuplicatePrincipals ==
    \A i \in DOMAIN users : \A j \in DOMAIN users :
        i # j =>
            /\ users[i].username # users[j].username
            /\ users[i].email # None => users[i].email # users[j].email

\* Two requests for one username had both passed their checks; the insert
\* of the second has just been refused by the store, and the other request
\* had created the principal.
C16_Witness ==
    /\ resp.op = "register"
    /\ resp.cause = "IntegrityError"
    /\ users # NoRows

(***************************************************************************)
(* Vocabulary of the properties of the client session                      *)
(***************************************************************************)
ClientOps == {"main", "login", "logout"}

\* A step that ran the script of the client and left the page page'.
Ran(ops) == page'.op \in ops /\ vars' # vars

\* The session is logged in: main() goes past the login form.
Active(ss) == ss.token # None /\ ss.user # None

\* The minutes since the last activity of a session that has one.
Inactive(ss, t) == t - (CHOOSE last_activity \in ss.last_activity : TRUE)

Cleared(ss) == ss.token = None /\ ss.user = None

(***************************************************************************)
(* C12: an interaction with a logged-in session refreshes last_activity to *)
(* now as long as now - last_activity < 30 minutes; an interaction with    *)
(* now - last_activity >= 30 minutes, exactly 30 minutes included, is a    *)
(* timeout and refreshes nothing.                                          *)
(***************************************************************************)
C12_TimeoutFromLimitOn ==
    [][(Ran(ClientOps) /\ Active(session_state) /\ session_state.last_activity # None) =>
        /\ Inactive(session_state, now) < INACTIVITY_LIMIT_MINUTES =>
                session_state'.last_activity = {now}
        /\ Inactive(session_state, now) >= INACTIVITY_LIMIT_MINUTES =>
                /\ page'.error = "SessionTimeout"
                /\ session_state'.last_activity # {now}
      ]_vars

(***************************************************************************)
(* C13: after a login and more than 30 minutes without interaction, the    *)
(* next interaction discards the cached token and principal, reports the   *)
(* timeout and sends no request, so the stale token never leaves the       *)
(* client; at the interaction after that the login form is shown, again    *)
(* without any request.                                                    *)
(***************************************************************************)
C13_TimeoutDiscardsUnsent ==
    [][/\ (/\ Ran(ClientOps)
           /\ Active(session_state)
           /\ session_state.last_activity # None
           /\ Inactive(session_state, now) > INACTIVITY_LIMIT_MINUTES) =>
                /\ Cleared(session_state')
                /\ page'.error = "SessionTimeout"
                /\ page'.sent = <<>>
       /\ (Ran({"main"}) /\ Cleared(session_state)) =>
                /\ page'.view = "login_form"
                /\ page'.sent = <<>>
                /\ Cleared(session_state')
      ]_vars

\* An interaction has just timed the session out: the token of the login is
\* gone from the cache and was not sent.
C13_Witness ==
    /\ page.op = "main"
    /\ page.error = "SessionTimeout"
    /\ page.sent = <<>>
    /\ Cleared(session_state)
    /\ \E d \in discarded : d.event = "timeout" /\ d.token \in held

(***************************************************************************)
(* C14: when the backend rejects the cached token on a protected call,     *)
(* because the token is expired, its principal is not found or its account *)
(* is inactive, the client clears the token and the principal and shows    *)
(* the login form, so that the token is never sent again.                  *)
(***************************************************************************)
C14_RejectionClears ==
    [][(Ran(ClientOps) /\ \E k \in 1..Len(page'.sent) : page'.sent[k].status \in {400, 401}) =>
            /\ Cleared(session_state')
            /\ page'.view = "login_form"
      ]_vars

(***************************************************************************)
(* C15: each of the three events that end a session, the inactivity        *)
(* timeout, the logout and the rejection of the token by the backend       *)
(* (401), clears the cached token, the principal snapshot and the          *)
(* last_activity timestamp.                                                *)
(***************************************************************************)
C15_EndDestroysSession ==
    [][(/\ Ran(ClientOps)
        /\ \/ page'.error = "SessionTimeout"
           \/ page'.op = "logout"
           \/ \E k \in 1..Len(page'.sent) : page'.sent[k].status = 401) =>
            /\ Cleared(session_state')
            /\ session_state'.last_activity = None
      ]_vars

(***************************************************************************)
(* C17: the backend keeps no record of tokens and revokes none.  A token   *)
(* that the client has dropped from its cache, at logout or timeout or     *)
(* otherwise, and that is presented again before its expiry while the      *)
(* principal it names exists and is active, is accepted and resolves to    *)
(* that principal.                                                         *)
(***************************************************************************)
C17_NoRevocation ==
    resp.op = "me" =>
        \A token \in held : \A d \in discarded :
            (/\ d.token = token
             /\ now < token.claims.exp
             /\ Named(token) # {}
             /\ \A P \in Named(token) : users[P].is_active) =>
                /\ resp.status = 200
                /\ \A P \in Named(token) : resp.body = <<UserOut(P, users[P])>>

\* The client has logged out, and the token it dropped has just been
\* presented to /api/users/me and accepted.
C17_Witness ==
    /\ resp.op = "me"
    /\ resp.status = 200
    /\ Cleared(session_state)
    /\ \E d \in discarded : d.event = "logout" /\ d.token \in held

(***************************************************************************)
(* C18: whenever an operation of the client has completed, the cached      *)
(* token and the cached principal snapshot are both present or both        *)
(* absent.                                                                 *)
(***************************************************************************)
C18_TokenWithPrincipal ==
    session_state.token = None <=> session_state.user = None

(***************************************************************************)
(* Vocabulary of the properties of logins of inactive accounts             *)
(***************************************************************************)
ProtectedOps == ItemOps \cup {"me", "create_item", "read_items"}

\* The username and the password are those of a principal of the table.
CorrectCredentials(username, password) ==
    \E i \in DOMAIN users :
        users[i].username = username /\ verify_password(password, users[i].hashed_password)

\* Login with correct credentials succeeds and returns a bearer token for
\* the username, whatever the active flag of the principal is.
LoginIgnoresActive ==
    \A u \in Usernames, p \in LoginPasswords :
        (login_for_access_token(u, p) /\ CorrectCredentials(u, p)) =>
            /\ resp'.status = 200
            /\ \E token \in held' :
                    /\ resp'.body = <<[access_token |-> token, token_type |-> "bearer"]>>
                    /\ token.claims.sub = u
                    /\ ValidlySigned(token)

(***************************************************************************)
(* C21: login does not consult the active flag.  Login with the correct    *)
(* username and password of a principal whose is_active is false succeeds  *)
(* and returns a bearer token; a protected call made with that token,      *)
(* while the backend accepts the token as a credential (it is not past its *)
(* expiry and its principal exists), is answered 400 "Inactive user" and   *)
(* changes nothing as long as the flag is false, and is no longer answered *)
(* 400 once the flag is true again.                                        *)
(***************************************************************************)
C21_InactiveLoginThen400 ==
    [][/\ LoginIgnoresActive
       /\ Handled(ProtectedOps) =>
            \A token \in held : \A g \in granted :
                (/\ g.token = token
                 /\ ~g.is_active
                 /\ now <= token.claims.exp
                 /\ Named(token) # {}) =>
                    \A P \in Named(token) :
                        /\ resp'.status = 400 <=> ~users[P].is_active
                        /\ resp'.status = 400 =>
                                /\ resp'.detail = "Inactive user"
                                /\ users' = users
                                /\ items' = items
      ]_vars

\* A protected call with the token that a login of an inactive principal
\* returned has just been answered 400.
C21_Witness ==
    /\ resp.op \in ProtectedOps
    /\ resp.status = 400
    /\ \E g \in granted : ~g.is_active /\ g.token \in held

\* The statement of C21 as it stands: 400 for every protected call with the
\* token for as long as the flag of its principal is false, however much
\* time has passed since the login.
C21_InactiveAlways400 ==
    [][/\ LoginIgnoresActive
       /\ Handled(ProtectedOps) =>
            \A token \in held : \A g \in granted :
                (/\ g.token = token
                 /\ ~g.is_active
                 /\ Named(token) # {}
                 /\ \A P \in Named(token) : ~users[P].is_active) =>
                    resp'.status = 400
      ]_vars

(***************************************************************************)
(* C22: refreshing last_activity never renews the token.  A run of the     *)
(* client that leaves the session logged in leaves its token as it was;    *)
(* and in a session whose last interaction is less than 30 minutes ago, a  *)
(* run more than 30 minutes after the login refreshes last_activity, has   *)
(* every request it sends with the cached token answered 401, and ends     *)
(* with the token and the principal cleared and the login form shown.      *)
(***************************************************************************)
C22_RefreshNeverRenews ==
    [][/\ (Ran(ClientOps) /\ Active(session_state) /\ Active(session_state')) =>
                session_state'.token = session_state.token
       /\ (/\ Ran(ClientOps)
           /\ Active(session_state)
           /\ session_state.last_activity # None
           /\ Inactive(session_state, now) < INACTIVITY_LIMIT_MINUTES
           /\ \A token \in session_state.token :
                    now > token.claims.iat + ACCESS_TOKEN_EXPIRE_MINUTES) =>
                /\ session_state'.last_activity = {now}
                /\ \A k \in 1..Len(page'.sent) :
                        /\ page'.sent[k].token \in session_state.token
                        /\ page'.sent[k].status = 401
                /\ page'.sent # <<>> => Cleared(session_state') /\ page'.view = "login_form"
      ]_vars

\* A session that was never idle for 30 minutes has just lost its token to
\* a 401: the token is past its expiry, its principal exists and is active,
\* and last_activity was refreshed by the same run.
C22_Witness ==
    /\ page.op = "main"
    /\ Len(page.sent) = 1
    /\ page.sent[1].status = 401
    /\ Cleared(session_state)
    /\ session_state.last_activity = {now}
    /\ \E d \in discarded :
            /\ d.event = "rejected"
            /\ d.token = page.sent[1].token
            /\ now > d.token.claims.exp
            /\ Named(d.token) # {}
            /\ \A P \in Named(d.token) : users[P].is_active
====
